---- MODULE Spec2Model ----
(***************************************************************************)
(* Clicker game: the GameEngine state machine (countdown, play, finished,  *)
(* idle), its two setInterval schedules, its five single-slot event        *)
(* channels, and the App click handler that forwards to it.                *)
(*                                                                         *)
(* timeLeft is a JavaScript Number.  It is modelled as an IEEE-754 binary64 *)
(* value held in fixed point: an integer count of units of 2^-FRAC, split  *)
(* in two limbs of 30 bits so that every intermediate fits a 32-bit        *)
(* integer.  Subtraction and division round to MANT significant bits, ties *)
(* to even, as the hardware does.                                          *)
(***************************************************************************)
EXTENDS Integers, Sequences, FiniteSets, TLC

(***************************************************************************)
(* Bounds of the model.                                                    *)
(***************************************************************************)
\* Clicks accepted per round before the model stops issuing more.
MaxClicks == 3
\* Schedules that may be live at once before the model stops starting more.
MaxSchedules == 2
\* Rounds started in one run of the application.
MaxRounds == 2
\* connect() calls, with the stats read that follows one, in flight at once.
MaxConnects == 1
\* Clicks the user at the page makes in one round of the application.
MaxPageClicks == 1
\* _submitScore runs started with a drawn score.
MaxRuns == 3
\* Web3Service.submitScore calls made with a drawn score.
MaxCalls == 3
\* Transactions sent to the ledger contract on its own.
MaxTxs == 3
\* connect() calls in flight at once when the calls overlap
MaxOverlap == 2

(***************************************************************************)
(* Program constants (CONFIG.GAME, GAME_STATES).                           *)
(***************************************************************************)
DURATION == 10
TIMER_INTERVAL == 100
WARNING_THRESHOLD == 6
DANGER_THRESHOLD == 3
COUNTDOWN_START == 3
MS_PER_SECOND == 1000

IDLE == "idle"
COUNTDOWN == "countdown"
PLAYING == "playing"
FINISHED == "finished"
GAME_STATES == {IDLE, COUNTDOWN, PLAYING, FINISHED}

\* The five single-slot event channels of the engine.
Channels == {"state", "timer", "click", "countdown", "end"}

\* null: an unset interval handle or an unset start timestamp.
NULL == 0
\* The value Date.now() leaves in gameStartTime (no wall clock is modelled).
STAMP == 1

(***************************************************************************)
(* JavaScript Number arithmetic (IEEE-754 binary64, round to nearest even). *)
(* A value is [neg, hi, lo] and stands for (-1)^neg * (hi*LIMB + lo) /     *)
(* 2^FRAC.  Every value the engine computes is a multiple of 2^-FRAC below *)
(* 16, so the fixed-point grid holds it exactly.                           *)
(***************************************************************************)
FRAC == 56
MANT == 53
LIMB_BITS == 30
LIMB == 2^LIMB_BITS

\* Below, CHOOSE r \in {e(v) : v \in {x}} : TRUE is e(x) with x evaluated
\* once, as a JavaScript expression is.
RECURSIVE BitLen(_)
BitLen(n) ==
    IF n = 0 THEN 0 ELSE CHOOSE r \in {1 + BitLen(h) : h \in {n \div 2}} : TRUE

FBits(x) == IF x.hi > 0 THEN LIMB_BITS + BitLen(x.hi) ELSE BitLen(x.lo)

\* Round a magnitude to MANT significant bits, ties to even.
FRoundBy(x, shift) ==
    IF shift <= 0 THEN x
    ELSE LET m    == 2^shift
             r    == x.lo % m
             half == m \div 2
             up   == r > half \/ (r = half /\ (x.lo \div m) % 2 = 1)
             lo2  == (x.lo - r) + (IF up THEN m ELSE 0)
         IN  IF lo2 = LIMB
             THEN [neg |-> x.neg, hi |-> x.hi + 1, lo |-> 0]
             ELSE [neg |-> x.neg, hi |-> x.hi, lo |-> lo2]

FRound(x0) ==
    CHOOSE r \in {FRoundBy(p[1], p[2]) :
                    p \in {<<x, FBits(x) - MANT>> : x \in {x0}}} : TRUE

\* A small non-negative integer as a Number.
FFromInt(n) == [neg |-> FALSE, hi |-> n * 2^(FRAC - LIMB_BITS), lo |-> 0]

FZero == FFromInt(0)

MagLess(x, y) == x.hi < y.hi \/ (x.hi = y.hi /\ x.lo < y.lo)

MagSub(x, y) ==
    IF x.lo >= y.lo
    THEN [hi |-> x.hi - y.hi, lo |-> x.lo - y.lo]
    ELSE [hi |-> x.hi - y.hi - 1, lo |-> x.lo + LIMB - y.lo]

\* x - y for non-negative x and y: the exact difference, then rounded.
FSub(x, y) ==
    IF MagLess(x, y)
    THEN LET d == MagSub(y, x) IN FRound([neg |-> TRUE, hi |-> d.hi, lo |-> d.lo])
    ELSE LET d == MagSub(x, y) IN FRound([neg |-> FALSE, hi |-> d.hi, lo |-> d.lo])

\* Long division, one quotient bit per step: q is the quotient so far, r the
\* remainder, k the bits still to produce.
RECURSIVE DivBits(_, _, _, _)
DivBits(q, r, b, k) ==
    IF k = 0 THEN [q |-> q, r |-> r]
    ELSE LET bit == IF 2 * r >= b THEN 1 ELSE 0
             lo2 == 2 * q.lo + bit
         IN  CHOOSE d \in {DivBits(n.q, n.r, b, k - 1) :
                    n \in {[q |-> [hi |-> 2 * q.hi + (lo2 \div LIMB),
                                   lo |-> lo2 % LIMB],
                            r |-> 2 * r - bit * b]}} : TRUE

\* a / b for positive integers a, b with a/b in [2^-4, 16): the quotient to
\* FRAC fractional bits, rounded on the remainder, then to MANT bits.
\* The quotient d.q of a by b with remainder d.r, rounded on the remainder.
FDivRound(d, b) ==
    LET up  == 2 * d.r > b \/ (2 * d.r = b /\ d.q.lo % 2 = 1)
        lo2 == d.q.lo + (IF up THEN 1 ELSE 0)
    IN  FRound([neg |-> FALSE, hi |-> d.q.hi + (lo2 \div LIMB), lo |-> lo2 % LIMB])

FDiv(a, b) ==
    CHOOSE r \in {FDivRound(d, b) :
                    d \in {DivBits([hi |-> 0, lo |-> a \div b], a % b, b, FRAC)}} : TRUE

FIsZero(x) == x.hi = 0 /\ x.lo = 0

\* x <= y
FLeq(x, y) ==
    IF FIsZero(x) /\ FIsZero(y) THEN TRUE
    ELSE IF x.neg /\ ~y.neg THEN TRUE
    ELSE IF ~x.neg /\ y.neg THEN FALSE
    ELSE IF x.neg THEN ~MagLess(x, y)
    ELSE ~MagLess(y, x)

\* The amount one firing of the decrement schedule takes off timeLeft.
TickSeconds == FDiv(TIMER_INTERVAL, MS_PER_SECOND)

FullDuration == FFromInt(DURATION)

(***************************************************************************)
(* State.                                                                  *)
(***************************************************************************)
VARIABLES
    state,              \* GameEngine.state
    clickCount,         \* GameEngine.clickCount
    timeLeft,           \* GameEngine.timeLeft, a Number
    timerInterval,      \* GameEngine.timerInterval: handle or NULL
    countdownInterval,  \* GameEngine.countdownInterval: handle or NULL
    gameStartTime,      \* GameEngine.gameStartTime: STAMP or NULL
    handlers,           \* the channels whose on... slot holds a subscriber
    intervals,          \* the live setInterval schedules: [id, kind, count]
    events,             \* what the last operation did, in order: its call
                        \* mark, then each event delivered and each schedule
                        \* started, cancelled or warned about
    ticks,              \* countdown values delivered since Countdown entry
    lastTimer,          \* the round's latest timer-updated event delivered to
                        \* the subscriber, if any
    fired,              \* decrement-schedule firings since Playing entry
    clickCalls,         \* registerClick() calls made during this Playing phase
    ended,              \* round-ended events delivered since Playing entry
    ui,                 \* the page: buttons' enabled flags, results modal,
                        \* stats shown, storage status
    web3,               \* Web3Service fields
    store,              \* localStorage's playerStats item, as text
    ledger,             \* the ledger contract's storage
    runs,               \* the _submitScore runs started, in order
    conns,              \* connect() calls in flight, counted per await
    direct,             \* the Web3Service.submitScore calls made from
                        \* outside the App, in order
    ethereum,           \* window.ethereum is defined
    started,            \* rounds the start button has started
    txs                 \* the submitScore transactions sent to the contract
                        \* from any account, in order, with their outcome

engineVars == <<state, clickCount, timeLeft, timerInterval, countdownInterval,
                gameStartTime, handlers, intervals>>
appVars == <<ui, web3, store, ledger, runs, conns, direct, ethereum, started,
             txs>>
vars == <<state, clickCount, timeLeft, timerInterval, countdownInterval,
          gameStartTime, handlers, intervals, events, ticks, lastTimer, fired,
          clickCalls, ended, ui, web3, store, ledger, runs, conns, direct,
          ethereum, started, txs>>

\* The engine object together with the browser's table of live schedules.
This ==
    [state |-> state, clickCount |-> clickCount, timeLeft |-> timeLeft,
     timerInterval |-> timerInterval, countdownInterval |-> countdownInterval,
     gameStartTime |-> gameStartTime, handlers |-> handlers,
     intervals |-> intervals]

\* An entry of the operation log that is not an event: a call, a schedule
\* firing, a setInterval, a clearInterval, a console.warn.
Mark(kind, what) == [ch |-> kind, val |-> what]

\* The result of a method that changes nothing and delivers nothing.
Same(g) == [g |-> g, log |-> <<>>]

\* Prefix a result's log.
After(log, R0) ==
    CHOOSE r \in {[g |-> R.g, log |-> log \o R.log] : R \in {R0}} : TRUE

\* Append to a result's log.
Before(R0, log) ==
    CHOOSE r \in {[g |-> R.g, log |-> R.log \o log] : R \in {R0}} : TRUE

(***************************************************************************)
(* The browser's timers.                                                   *)
(***************************************************************************)
\* A handle no live schedule and no engine field holds.  Real handles are
\* never reused; one that nothing refers to any more is indistinguishable
\* from a fresh one.
NewId(g) ==
    LET used == {iv.id : iv \in g.intervals}
                    \cup {g.timerInterval, g.countdownInterval}
    IN  CHOOSE n \in 1..(Cardinality(used) + 1) :
            n \notin used /\ \A m \in 1..(n - 1) : m \in used

clearInterval(g, id) ==
    [g |-> [g EXCEPT !.intervals = {iv \in @ : iv.id # id}],
     log |-> <<Mark("clearInterval", id)>>]

(***************************************************************************)
(* Event emitters: a channel delivers only while its slot holds a handler. *)
(***************************************************************************)
emit(g, ch, val) ==
    IF ch \in g.handlers THEN <<[ch |-> ch, val |-> val]>> ELSE <<>>

getTimerStatusSwapped(g) ==
    IF FLeq(g.timeLeft, FFromInt(WARNING_THRESHOLD)) THEN "danger"
    ELSE IF FLeq(g.timeLeft, FFromInt(DANGER_THRESHOLD)) THEN "warning"
    ELSE "normal"

getTimerStatus(g) ==
    IF FLeq(g.timeLeft, FFromInt(DANGER_THRESHOLD)) THEN "danger"
    ELSE IF FLeq(g.timeLeft, FFromInt(WARNING_THRESHOLD)) THEN "warning"
    ELSE "normal"

emitStateChange(g) == [g |-> g, log |-> emit(g, "state", g.state)]

emitTimerUpdate(g) ==
    [g |-> g,
     log |-> emit(g, "timer", [timeLeft |-> g.timeLeft, status |-> getTimerStatus(g)])]

emitClickCountUpdate(g) == [g |-> g, log |-> emit(g, "click", g.clickCount)]

emitCountdownTick(g, count) == [g |-> g, log |-> emit(g, "countdown", count)]

emitGameEnd(g) ==
    [g |-> g,
     log |-> emit(g, "end", [score |-> g.clickCount, duration |-> DURATION])]

isPlaying(g) == g.state = PLAYING

(***************************************************************************)
(* GameEngine methods.  Each takes the engine g and yields the engine it   *)
(* leaves behind and the log of what it did.                               *)
(***************************************************************************)
\* Faulty variant: the round clock starts one tick short of the full duration.
startGameplayShortClock(g) ==
    LET g1 == [g EXCEPT !.state = PLAYING, !.clickCount = 0,
                        !.timeLeft = FSub(FullDuration, TickSeconds),
                        !.gameStartTime = STAMP]
        id == NewId(g1)
        g2 == [g1 EXCEPT !.timerInterval = id,
                         !.intervals = @ \cup {[id |-> id, kind |-> "timer", count |-> 0]}]
    IN  [g |-> g2,
         log |-> <<Mark("call", "startGameplay")>>
                 \o emitStateChange(g1).log
                 \o emitClickCountUpdate(g1).log
                 \o emitTimerUpdate(g1).log
                 \o <<Mark("setInterval", id)>>]

startGameplay(g) ==
    LET g1 == [g EXCEPT !.state = PLAYING, !.clickCount = 0,
                        !.timeLeft = FullDuration, !.gameStartTime = STAMP]
        id == NewId(g1)
        g2 == [g1 EXCEPT !.timerInterval = id,
                         !.intervals = @ \cup {[id |-> id, kind |-> "timer", count |-> 0]}]
    IN  [g |-> g2,
         log |-> <<Mark("call", "startGameplay")>>
                 \o emitStateChange(g1).log
                 \o emitClickCountUpdate(g1).log
                 \o emitTimerUpdate(g1).log
                 \o <<Mark("setInterval", id)>>]

\* Faulty variant: the Idle guard is missing.
startCountdownNoGuard(g) ==
    LET g1 == [g EXCEPT !.state = COUNTDOWN]
        count == COUNTDOWN_START
        id == NewId(g1)
        g2 == [g1 EXCEPT !.countdownInterval = id,
                         !.intervals = @ \cup {[id |-> id, kind |-> "countdown",
                                                count |-> count]}]
    IN  [g |-> g2,
         log |-> <<Mark("call", "startCountdown")>>
                 \o emitStateChange(g1).log
                 \o emitCountdownTick(g1, count).log
                 \o <<Mark("setInterval", id)>>]

startCountdown(g) ==
    IF g.state # IDLE
    THEN [g |-> g, log |-> <<Mark("call", "startCountdown"), Mark("warn", "not idle")>>]
    ELSE LET g1 == [g EXCEPT !.state = COUNTDOWN]
             count == COUNTDOWN_START
             id == NewId(g1)
             g2 == [g1 EXCEPT !.countdownInterval = id,
                              !.intervals = @ \cup {[id |-> id, kind |-> "countdown",
                                                     count |-> count]}]
         IN  [g |-> g2,
              log |-> <<Mark("call", "startCountdown")>>
                      \o emitStateChange(g1).log
                      \o emitCountdownTick(g1, count).log
                      \o <<Mark("setInterval", id)>>]

\* Faulty variant: the test is count >= 0, so the value 0 is delivered as a tick.
countdownTickEmitsZero(g, iv) ==
    LET count == iv.count - 1
    IN  IF count >= 0
        THEN [g |-> [g EXCEPT !.intervals =
                        (@ \ {iv}) \cup {[iv EXCEPT !.count = count]}],
              log |-> <<Mark("fire", "countdown")>> \o emitCountdownTick(g, count).log]
        ELSE LET g0 == [g EXCEPT !.intervals =
                            (@ \ {iv}) \cup {[iv EXCEPT !.count = count]}]
                 C  == clearInterval(g0, g0.countdownInterval)
                 g1 == [C.g EXCEPT !.countdownInterval = NULL]
             IN  After(<<Mark("fire", "countdown")>> \o C.log, startGameplay(g1))

\* The callback of the countdown schedule iv; iv.count is its closure's count.
countdownTick(g, iv) ==
    LET count == iv.count - 1
    IN  IF count > 0
        THEN [g |-> [g EXCEPT !.intervals =
                        (@ \ {iv}) \cup {[iv EXCEPT !.count = count]}],
              log |-> <<Mark("fire", "countdown")>> \o emitCountdownTick(g, count).log]
        ELSE LET g0 == [g EXCEPT !.intervals =
                            (@ \ {iv}) \cup {[iv EXCEPT !.count = count]}]
                 C  == clearInterval(g0, g0.countdownInterval)
                 g1 == [C.g EXCEPT !.countdownInterval = NULL]
             IN  After(<<Mark("fire", "countdown")>> \o C.log, startGameplay(g1))

\* Faulty variant: the Playing guard is missing.
registerClickNoGuard(g) ==
    LET g1 == [g EXCEPT !.clickCount = @ + 1]
    IN  After(<<Mark("call", "registerClick")>>, emitClickCountUpdate(g1))

\* Faulty variant: one accepted click counts twice.
registerClickTwice(g) ==
    IF g.state # PLAYING
    THEN [g |-> g, log |-> <<Mark("call", "registerClick")>>]
    ELSE LET g1 == [g EXCEPT !.clickCount = @ + 2]
         IN  After(<<Mark("call", "registerClick")>>, emitClickCountUpdate(g1))

registerClick(g) ==
    IF g.state # PLAYING
    THEN [g |-> g, log |-> <<Mark("call", "registerClick")>>]
    ELSE LET g1 == [g EXCEPT !.clickCount = @ + 1]
         IN  After(<<Mark("call", "registerClick")>>, emitClickCountUpdate(g1))

\* Faulty variant: the Playing guard is missing.
endGameNoGuard(g) ==
    LET C  == IF g.timerInterval # NULL
              THEN LET c == clearInterval(g, g.timerInterval)
                   IN  [g |-> [c.g EXCEPT !.timerInterval = NULL], log |-> c.log]
              ELSE Same(g)
        g1 == [C.g EXCEPT !.state = FINISHED, !.timeLeft = FZero]
    IN  [g |-> g1,
         log |-> <<Mark("call", "endGame")>> \o C.log
                 \o emitStateChange(g1).log
                 \o emitTimerUpdate(g1).log
                 \o emitGameEnd(g1).log]

\* Faulty variant: timeLeft is not set to 0 on the way to Finished.
endGameKeepsClock(g) ==
    IF g.state # PLAYING
    THEN [g |-> g, log |-> <<Mark("call", "endGame")>>]
    ELSE LET C  == IF g.timerInterval # NULL
                   THEN LET c == clearInterval(g, g.timerInterval)
                        IN  [g |-> [c.g EXCEPT !.timerInterval = NULL], log |-> c.log]
                   ELSE Same(g)
             g1 == [C.g EXCEPT !.state = FINISHED]
         IN  [g |-> g1,
              log |-> <<Mark("call", "endGame")>> \o C.log
                      \o emitStateChange(g1).log
                      \o emitTimerUpdate(g1).log
                      \o emitGameEnd(g1).log]

\* Faulty variant: the round-ended event is delivered before the state change.
endGameEndFirst(g) ==
    IF g.state # PLAYING
    THEN [g |-> g, log |-> <<Mark("call", "endGame")>>]
    ELSE LET C  == IF g.timerInterval # NULL
                   THEN LET c == clearInterval(g, g.timerInterval)
                        IN  [g |-> [c.g EXCEPT !.timerInterval = NULL], log |-> c.log]
                   ELSE Same(g)
             g1 == [C.g EXCEPT !.state = FINISHED, !.timeLeft = FZero]
         IN  [g |-> g1,
              log |-> <<Mark("call", "endGame")>> \o C.log
                      \o emitGameEnd(g1).log
                      \o emitStateChange(g1).log
                      \o emitTimerUpdate(g1).log]

endGameLeavesTimer(g) ==
    IF g.state # PLAYING
    THEN [g |-> g, log |-> <<Mark("call", "endGame")>>]
    ELSE LET g1 == [g EXCEPT !.state = FINISHED, !.timeLeft = FZero]
         IN  [g |-> g1,
              log |-> <<Mark("call", "endGame")>>
                      \o emitStateChange(g1).log
                      \o emitTimerUpdate(g1).log
                      \o emitGameEnd(g1).log]

endGame(g) ==
    IF g.state # PLAYING
    THEN [g |-> g, log |-> <<Mark("call", "endGame")>>]
    ELSE LET C  == IF g.timerInterval # NULL
                   THEN LET c == clearInterval(g, g.timerInterval)
                        IN  [g |-> [c.g EXCEPT !.timerInterval = NULL], log |-> c.log]
                   ELSE Same(g)
             g1 == [C.g EXCEPT !.state = FINISHED, !.timeLeft = FZero]
         IN  [g |-> g1,
              log |-> <<Mark("call", "endGame")>> \o C.log
                      \o emitStateChange(g1).log
                      \o emitTimerUpdate(g1).log
                      \o emitGameEnd(g1).log]

\* The callback of the decrement schedule.
\* The rest of the decrement callback, g1 being the engine after the
\* subtraction.
timerTickRest(g1) ==
    CHOOSE r \in {Before(R, emitTimerUpdate(R.g).log) :
                    R \in {IF FLeq(g1.timeLeft, FZero)
                           THEN endGame([g1 EXCEPT !.timeLeft = FZero])
                           ELSE Same(g1)}} : TRUE

\* Faulty variant: at 0 the callback cancels its schedule and does not end
\* the round.
timerTickStopsOnly(g) ==
    LET g1 == [g EXCEPT !.timeLeft = FSub(@, TickSeconds)]
    IN  IF FLeq(g1.timeLeft, FZero)
        THEN LET C == clearInterval([g1 EXCEPT !.timeLeft = FZero], g1.timerInterval)
             IN  After(<<Mark("fire", "timer")>> \o C.log,
                       emitTimerUpdate([C.g EXCEPT !.timerInterval = NULL]))
        ELSE After(<<Mark("fire", "timer")>>, emitTimerUpdate(g1))

timerTick(g) ==
    CHOOSE r \in {After(<<Mark("fire", "timer")>>, timerTickRest(g1)) :
                    g1 \in {[g EXCEPT !.timeLeft = FSub(@, TickSeconds)]}} : TRUE

\* Faulty variant: the countdown schedule is not cancelled.
resetLeavesCountdown(g) ==
    LET T  == IF g.timerInterval # NULL
              THEN LET c == clearInterval(g, g.timerInterval)
                   IN  [g |-> [c.g EXCEPT !.timerInterval = NULL], log |-> c.log]
              ELSE Same(g)
        g1 == [T.g EXCEPT !.state = IDLE, !.clickCount = 0,
                          !.timeLeft = FullDuration, !.gameStartTime = NULL]
    IN  [g |-> g1,
         log |-> <<Mark("call", "reset")>> \o T.log \o emitStateChange(g1).log]

reset(g) ==
    LET T  == IF g.timerInterval # NULL
              THEN LET c == clearInterval(g, g.timerInterval)
                   IN  [g |-> [c.g EXCEPT !.timerInterval = NULL], log |-> c.log]
              ELSE Same(g)
        Cd == IF T.g.countdownInterval # NULL
              THEN LET c == clearInterval(T.g, T.g.countdownInterval)
                   IN  [g |-> [c.g EXCEPT !.countdownInterval = NULL], log |-> c.log]
              ELSE Same(T.g)
        g1 == [Cd.g EXCEPT !.state = IDLE, !.clickCount = 0,
                           !.timeLeft = FullDuration, !.gameStartTime = NULL]
    IN  [g |-> g1,
         log |-> <<Mark("call", "reset")>> \o T.log \o Cd.log \o emitStateChange(g1).log]

\* Faulty variant: the countdown schedule is not cancelled.
destroyLeavesCountdown(g) ==
    LET T  == IF g.timerInterval # NULL THEN clearInterval(g, g.timerInterval) ELSE Same(g)
    IN  [g |-> [T.g EXCEPT !.handlers = {}],
         log |-> <<Mark("call", "destroy")>> \o T.log]

destroy(g) ==
    LET T  == IF g.timerInterval # NULL THEN clearInterval(g, g.timerInterval) ELSE Same(g)
        Cd == IF T.g.countdownInterval # NULL
              THEN clearInterval(T.g, T.g.countdownInterval)
              ELSE Same(T.g)
    IN  [g |-> [Cd.g EXCEPT !.handlers = {}],
         log |-> <<Mark("call", "destroy")>> \o T.log \o Cd.log]

\* setOnStateChange ... setOnGameEnd, called together as the App does.
setHandlers(g) ==
    [g |-> [g EXCEPT !.handlers = Channels], log |-> <<Mark("call", "setHandlers")>>]

(***************************************************************************)
(* App click handler.                                                      *)
(***************************************************************************)
handleClick(g) ==
    IF isPlaying(g)
    THEN After(<<Mark("app", "handleClick")>>, registerClick(g))
    ELSE [g |-> g, log |-> <<Mark("app", "handleClick")>>]

(***************************************************************************)
(* Reading the operation log.                                              *)
(***************************************************************************)
HasMark(log, kind, what) ==
    \E i \in DOMAIN log : log[i].ch = kind /\ log[i].val = what

\* The events of one channel, in the order delivered.
OnChannel(log, ch) == SelectSeq(log, LAMBDA e : e.ch = ch)

Vals(log) == [i \in DOMAIN log |-> log[i].val]

\* The operation the log belongs to (every operation logs its mark first).
OpOf(log) == IF log = <<>> THEN "none" ELSE log[1].val

(***************************************************************************)
(* The orchestrator's surroundings: configuration, the wallet/ledger       *)
(* client's fields, the ledger contract, localStorage, the page.           *)
(***************************************************************************)
MIN_SCORE == 1
MAX_SCORE == 1000
\* The bound the contract's require() states.
LEDGER_MAX == 1000
\* block.timestamp (no chain clock is modelled).
BLOCK_TIME == 1

\* Scores a _submitScore run is started with when the score is drawn.
RunScores == {0, MIN_SCORE, 500, MAX_SCORE + 1}
\* Scores Web3Service.submitScore is called with from outside the App: the
\* ends of the valid range, a value inside it, and the values next to it.
CallScores == {-1, 0, MIN_SCORE, 500, MAX_SCORE, MAX_SCORE + 1}

\* Click counts sent to the contract directly: the ends of the accepted
\* range, a value inside it, and the values next to it.
LedgerScores == {0, 1, 500, LEDGER_MAX, LEDGER_MAX + 1}
\* Block timestamps; a block is never stamped earlier than the one before.
BlockTimes == 1..2

\* CONFIG.CONTRACT_ADDRESS is a deployed address, not the placeholder.
DEPLOYED == TRUE

\* Account addresses; the wallet's account is WALLET.
Players == {"0xA", "0xB"}
WALLET == "0xA"
\* null, where an address is expected.
NO_ADDRESS == "null"

DISCONNECTED == "disconnected"
CONNECTING == "connecting"
CONNECTED == "connected"
ERROR == "error"

\* ---- the ledger contract (SimpleClickerScores) ----
NewLedger ==
    [playerScores |-> [p \in Players |-> <<>>],
     playerBestScore |-> [p \in Players |-> 0],
     playerTotalClicks |-> [p \in Players |-> 0]]

\* Faulty variant: the best score is overwritten by every submission.
ledgerSubmitScoreAtLastIsBest(L, sender, clicks, time) ==
    IF ~(clicks > 0 /\ clicks <= LEDGER_MAX)
    THEN [reverted |-> TRUE, L |-> L]
    ELSE [reverted |-> FALSE,
          L |-> [L EXCEPT
                   !.playerScores[sender] =
                       Append(@, [score |-> clicks, timestamp |-> time]),
                   !.playerBestScore[sender] = clicks,
                   !.playerTotalClicks[sender] = @ + clicks]]

\* Faulty variant: the require() lets 0 through.
ledgerSubmitScoreAtTakesZero(L, sender, clicks, time) ==
    IF ~(clicks >= 0 /\ clicks <= LEDGER_MAX)
    THEN [reverted |-> TRUE, L |-> L]
    ELSE [reverted |-> FALSE,
          L |-> [L EXCEPT
                   !.playerScores[sender] =
                       Append(@, [score |-> clicks, timestamp |-> time]),
                   !.playerBestScore[sender] = IF clicks > @ THEN clicks ELSE @,
                   !.playerTotalClicks[sender] = @ + clicks]]

\* submitScore(_clicks) sent by sender in a block stamped time: reverted, or
\* the contract after it.  _clicks is a uint256, so never negative; the
\* totals stay far below 2^256.
ledgerSubmitScoreAt(L, sender, clicks, time) ==
    IF ~(clicks > 0 /\ clicks <= LEDGER_MAX)
    THEN [reverted |-> TRUE, L |-> L]
    ELSE [reverted |-> FALSE,
          L |-> [L EXCEPT
                   !.playerScores[sender] =
                       Append(@, [score |-> clicks, timestamp |-> time]),
                   !.playerBestScore[sender] = IF clicks > @ THEN clicks ELSE @,
                   !.playerTotalClicks[sender] = @ + clicks]]

\* The same where no chain clock is modelled.
ledgerSubmitScore(L, sender, clicks) ==
    ledgerSubmitScoreAt(L, sender, clicks, BLOCK_TIME)

ledgerGetPlayerStats(L, player) ==
    [totalScores |-> Len(L.playerScores[player]),
     bestScore |-> L.playerBestScore[player],
     totalClicks |-> L.playerTotalClicks[player]]

\* getPlayerScores: the scores of the player's entries, copied in order.
ledgerGetPlayerScores(L, player) ==
    [i \in 1..Len(L.playerScores[player]) |-> L.playerScores[player][i].score]

\* Faulty variant: the index is taken as counting from 1.
ledgerGetScoreAtIndexFromOne(L, player, index) ==
    IF ~(index < Len(L.playerScores[player])) \/ index = 0
    THEN [reverted |-> TRUE, score |-> 0, timestamp |-> 0]
    ELSE [reverted |-> FALSE,
          score |-> L.playerScores[player][index].score,
          timestamp |-> L.playerScores[player][index].timestamp]

\* getScoreAtIndex: reverted, or the entry at the 0-based index.
ledgerGetScoreAtIndex(L, player, index) ==
    IF ~(index < Len(L.playerScores[player]))
    THEN [reverted |-> TRUE, score |-> 0, timestamp |-> 0]
    ELSE [reverted |-> FALSE,
          score |-> L.playerScores[player][index + 1].score,
          timestamp |-> L.playerScores[player][index + 1].timestamp]

ledgerGetScoreCount(L, player) == Len(L.playerScores[player])

\* ---- localStorage and JSON ----
\* A stored text is [kind, totalScores, bestScore, totalClicks]: kind
\* "object" with each number written as its decimal digits, kind "null" for
\* the text null, kind "absent" when the key holds nothing.
RECURSIVE toDigits(_)
toDigits(n) == IF n < 10 THEN <<n>> ELSE Append(toDigits(n \div 10), n % 10)

RECURSIVE fromDigits(_)
fromDigits(d) ==
    IF d = <<>> THEN 0
    ELSE 10 * fromDigits(SubSeq(d, 1, Len(d) - 1)) + d[Len(d)]

AbsentText == [kind |-> "absent", totalScores |-> <<>>, bestScore |-> <<>>,
               totalClicks |-> <<>>]

NullText == [kind |-> "null", totalScores |-> <<>>, bestScore |-> <<>>,
             totalClicks |-> <<>>]

JSONstringify(stats) ==
    [kind |-> "object",
     totalScores |-> toDigits(stats.totalScores),
     bestScore |-> toDigits(stats.bestScore),
     totalClicks |-> toDigits(stats.totalClicks)]

\* JSON.parse of an "object" text.
JSONparse(text) ==
    [totalScores |-> fromDigits(text.totalScores),
     bestScore |-> fromDigits(text.bestScore),
     totalClicks |-> fromDigits(text.totalClicks)]

ZeroStats == [totalScores |-> 0, bestScore |-> 0, totalClicks |-> 0]

\* UIController._loadDemoStats: [isNull, stats]; the defaults when nothing is
\* stored, null when the stored text is null.
loadDemoStats(text) ==
    IF text.kind = "absent" THEN [isNull |-> FALSE, stats |-> ZeroStats]
    ELSE IF text.kind = "null" THEN [isNull |-> TRUE, stats |-> ZeroStats]
    ELSE [isNull |-> FALSE, stats |-> JSONparse(text)]

\* ---- the page ----
\* What the four stats fields show.
Shown(stats, demo) ==
    [bestScore |-> stats.bestScore, totalGames |-> stats.totalScores,
     totalClicks |-> stats.totalClicks,
     onChainScores |-> IF demo THEN 0 ELSE stats.totalScores, demo |-> demo]

NewUI(startEnabled) ==
    [startEnabled |-> startEnabled, clickEnabled |-> FALSE, modal |-> FALSE,
     stats |-> Shown(ZeroStats, FALSE), storageStatus |-> ""]

\* ---- Web3Service fields ----
NewWeb3 ==
    [provider |-> FALSE, signer |-> FALSE, contract |-> FALSE,
     walletAddress |-> NO_ADDRESS, state |-> DISCONNECTED, isDemoMode |-> FALSE]

\* Web3Service._reset
web3Reset(w) ==
    [w EXCEPT !.provider = FALSE, !.signer = FALSE, !.contract = FALSE,
              !.walletAddress = NO_ADDRESS, !.state = DISCONNECTED]

isConnected(w) == w.state = CONNECTED /\ w.walletAddress # NO_ADDRESS

\* Web3Service._initializeContract
initializeContract(w) ==
    IF ~DEPLOYED
    THEN [w EXCEPT !.isDemoMode = TRUE, !.contract = FALSE]
    ELSE [w EXCEPT !.contract = TRUE, !.isDemoMode = FALSE]

\* No connect() call, no stats read started by a connect, in flight.
NoCalls == [request |-> 0, address |-> 0, network |-> 0, stats |-> 0]

(***************************************************************************)
(* The orchestrator (App), the wallet/ledger client (Web3Service) and the  *)
(* page (UIController).  A is the record of their state; an async function *)
(* is cut at each await on the wallet or the ledger, one operator per      *)
(* piece.  An await on a value already at hand runs on in the same piece.  *)
(***************************************************************************)
\* The orchestrator's side of the state, as one record.
AppThis ==
    [ui |-> ui, web3 |-> web3, store |-> store, ledger |-> ledger,
     runs |-> runs, conns |-> conns, direct |-> direct, ethereum |-> ethereum]

\* ---- UIController ----
\* An alert is an element of its own, removed after ALERT.DURATION; nothing
\* the page keeps changes.
showAlert(A, type) == A

setStartButtonEnabled(A, enabled) == [A EXCEPT !.ui.startEnabled = enabled]

setClickButtonEnabled(A, enabled) == [A EXCEPT !.ui.clickEnabled = enabled]

updateStorageStatus(A, message) == [A EXCEPT !.ui.storageStatus = message]

updateStats(A, stats) == [A EXCEPT !.ui.stats = Shown(stats, FALSE)]

\* [A, threw]: reading a field of null throws.
updateStatsDemo(A) ==
    LET d == loadDemoStats(A.store)
    IN  IF d.isNull
        THEN [A |-> A, threw |-> TRUE]
        ELSE [A |-> [A EXCEPT !.ui.stats = Shown(d.stats, TRUE)], threw |-> FALSE]

\* Faulty variant: the games counter is not incremented.
saveDemoStatsNoCount(A, score) ==
    LET d == loadDemoStats(A.store)
    IN  IF d.isNull
        THEN [A |-> A, threw |-> TRUE]
        ELSE LET stats == [d.stats EXCEPT
                             !.totalClicks = @ + score,
                             !.bestScore = IF score > @ THEN score ELSE @]
                 A1 == [A EXCEPT !.store = JSONstringify(stats)]
             IN  [A |-> updateStatsDemo(A1).A, threw |-> FALSE]

\* [A, threw]: the increment throws when the stored value is null; the
\* display refresh runs inside the try.
saveDemoStats(A, score) ==
    LET d == loadDemoStats(A.store)
    IN  IF d.isNull
        THEN [A |-> A, threw |-> TRUE]
        ELSE LET stats == [d.stats EXCEPT
                             !.totalScores = @ + 1,
                             !.totalClicks = @ + score,
                             !.bestScore = IF score > @ THEN score ELSE @]
                 A1 == [A EXCEPT !.store = JSONstringify(stats)]
             IN  [A |-> updateStatsDemo(A1).A, threw |-> FALSE]

updateWalletUI(A, connected, address) ==
    IF connected /\ address # NO_ADDRESS
    THEN setStartButtonEnabled(A, TRUE)
    ELSE setStartButtonEnabled(A, FALSE)

resetGameUI(A) == setStartButtonEnabled(setClickButtonEnabled(A, FALSE), TRUE)

\* Faulty variant: the upper bound is not tested.
submitScoreNoUpperBound(w, score) ==
    IF w.isDemoMode \/ ~w.contract THEN "unavailable"
    ELSE IF score < MIN_SCORE THEN "invalid"
    ELSE "sent"

\* ---- Web3Service.submitScore, up to its first await ----
\* "unavailable" and "invalid" are returned at once; "sent" is the call
\* contract.submitScore(score), awaited.
submitScore(w, score) ==
    IF w.isDemoMode \/ ~w.contract THEN "unavailable"
    ELSE IF score < MIN_SCORE \/ score > MAX_SCORE THEN "invalid"
    ELSE "sent"

\* ---- Web3Service.getPlayerStats, up to its first await ----
getPlayerStats(w) ==
    IF w.walletAddress = NO_ADDRESS THEN "no address"
    ELSE IF w.isDemoMode \/ ~w.contract THEN "unavailable"
    ELSE "sent"

\* ---- App._loadPlayerStats ----
\* [A, pending]: pending when contract.getPlayerStats is awaited.
loadPlayerStats(A) ==
    IF A.web3.isDemoMode \/ ~A.web3.contract
    THEN LET U == updateStatsDemo(A)
         IN  [A |-> IF U.threw THEN updateStats(A, ZeroStats) ELSE U.A,
              pending |-> FALSE]
    ELSE IF getPlayerStats(A.web3) = "sent"
         THEN [A |-> A, pending |-> TRUE]
         ELSE [A |-> updateStats(A, ZeroStats), pending |-> FALSE]

\* The rest of _loadPlayerStats once the ledger has answered (ok) or failed.
loadPlayerStatsDone(A, ok) ==
    IF ok
    THEN updateStats(A, ledgerGetPlayerStats(A.ledger, WALLET))
    ELSE updateStats(A, ZeroStats)

\* ---- App._submitScore ----
\* One run of _submitScore: the score it was given, where it stands (pc:
\* "submit" awaiting the ledger submission, "stats" awaiting the stats read,
\* "done"), the contract.submitScore and contract.getPlayerStats calls it
\* has made, the branch it took and the storage status it last reported.
Run(score, pc, calls, branch, report) ==
    [score |-> score, pc |-> pc, calls |-> calls, reads |-> 0,
     branch |-> branch, report |-> report]

\* The catch block of _submitScore.
submitScoreCatch(A) ==
    setStartButtonEnabled(
        showAlert(updateStorageStatus(A, "failed"), "error"), TRUE)

\* Lines 288-289: the end of the try block.
submitScoreEnd(A) == setStartButtonEnabled(A, TRUE)

\* Faulty variant: the zero-score branch returns without enabling start.
submitScoreBeginZeroStuck(A, score) ==
    IF A.web3.isDemoMode \/ ~A.web3.contract
    THEN LET S == saveDemoStats(A, score)
         IN  IF S.threw
             THEN [submitScoreCatch(A) EXCEPT
                     !.runs = Append(@, Run(score, "done", 0, "exception", "failed"))]
             ELSE [setStartButtonEnabled(updateStorageStatus(S.A, "local"), TRUE)
                     EXCEPT
                     !.runs = Append(@, Run(score, "done", 0, "fallback", "local"))]
    ELSE IF score = 0
    THEN [showAlert(updateStorageStatus(A, "none"), "info") EXCEPT
            !.runs = Append(@, Run(score, "done", 0, "zero", "none"))]
    ELSE IF submitScore(A.web3, score) = "sent"
    THEN [updateStorageStatus(A, "storing") EXCEPT
            !.runs = Append(@, Run(score, "submit", 1, "pending", "storing"))]
    ELSE [submitScoreEnd(showAlert(updateStorageStatus(A, "failed"), "error"))
            EXCEPT
            !.runs = Append(@, Run(score, "done", 0, "failure", "failed"))]

\* Faulty variant: a score of 0 is sent to the ledger like any other.
submitScoreBeginSendsZero(A, score) ==
    IF A.web3.isDemoMode \/ ~A.web3.contract
    THEN LET S == saveDemoStats(A, score)
         IN  IF S.threw
             THEN [submitScoreCatch(A) EXCEPT
                     !.runs = Append(@, Run(score, "done", 0, "exception", "failed"))]
             ELSE [setStartButtonEnabled(updateStorageStatus(S.A, "local"), TRUE)
                     EXCEPT
                     !.runs = Append(@, Run(score, "done", 0, "fallback", "local"))]
    ELSE [updateStorageStatus(A, "storing") EXCEPT
            !.runs = Append(@, Run(score, "submit", 1, "pending", "storing"))]

\* _submitScore(score) up to its first await on the ledger, or to its end.
submitScoreBegin(A, score) ==
    IF A.web3.isDemoMode \/ ~A.web3.contract
    THEN LET S == saveDemoStats(A, score)
         IN  IF S.threw
             THEN [submitScoreCatch(A) EXCEPT
                     !.runs = Append(@, Run(score, "done", 0, "exception", "failed"))]
             ELSE [setStartButtonEnabled(updateStorageStatus(S.A, "local"), TRUE)
                     EXCEPT
                     !.runs = Append(@, Run(score, "done", 0, "fallback", "local"))]
    ELSE IF score = 0
    THEN [setStartButtonEnabled(
              showAlert(updateStorageStatus(A, "none"), "info"), TRUE) EXCEPT
            !.runs = Append(@, Run(score, "done", 0, "zero", "none"))]
    ELSE IF submitScore(A.web3, score) = "sent"
    THEN [updateStorageStatus(A, "storing") EXCEPT
            !.runs = Append(@, Run(score, "submit", 1, "pending", "storing"))]
    ELSE [submitScoreEnd(showAlert(updateStorageStatus(A, "failed"), "error"))
            EXCEPT
            !.runs = Append(@, Run(score, "done", 0, "failure", "failed"))]

\* Run i after its submission was acknowledged: the success branch up to the
\* await in _loadPlayerStats, or to the end.
submitScoreAcked(A, i) ==
    LET A1 == showAlert(updateStorageStatus(A, "stored"), "success")
        P  == loadPlayerStats(A1)
    IN  IF P.pending
        THEN [P.A EXCEPT !.runs[i].pc = "stats", !.runs[i].reads = @ + 1,
                         !.runs[i].branch = "success", !.runs[i].report = "stored"]
        ELSE [submitScoreEnd(P.A) EXCEPT
                !.runs[i].pc = "done", !.runs[i].branch = "success",
                !.runs[i].report = "stored"]

\* Faulty variant: a failed submission is sent again.
submitScoreFailedRetries(A, i) ==
    [updateStorageStatus(A, "storing") EXCEPT !.runs[i].calls = @ + 1]

\* Run i after its submission failed: the failure branch, to the end.
submitScoreFailed(A, i) ==
    [submitScoreEnd(showAlert(updateStorageStatus(A, "failed"), "error")) EXCEPT
        !.runs[i].pc = "done", !.runs[i].branch = "failure",
        !.runs[i].report = "failed"]

\* Run i after its stats read came back: the end of the try block.
submitScoreReloaded(A, i, ok) ==
    [submitScoreEnd(loadPlayerStatsDone(A, ok)) EXCEPT !.runs[i].pc = "done"]

\* ---- Web3Service.submitScore called from outside the App ----
\* The call is recorded with what it returned at once, or as awaiting the
\* contract ("submit").
submitScoreCall(A, score) ==
    LET o == submitScore(A.web3, score)
    IN  [A EXCEPT !.direct =
            Append(@, [score |-> score, outcome |-> o, success |-> FALSE,
                       pc |-> IF o = "sent" THEN "submit" ELSE "done"])]

\* The rest of call k once the transaction was mined and acknowledged, or
\* failed.
submitScoreReturns(A, k, mined) ==
    LET T == ledgerSubmitScore(A.ledger, WALLET, A.direct[k].score)
    IN  IF mined /\ ~T.reverted
        THEN [A EXCEPT !.ledger = T.L, !.direct[k].pc = "done",
                       !.direct[k].success = TRUE]
        ELSE [A EXCEPT !.direct[k].pc = "done"]

\* ---- App handlers of engine events ----
handleGameStateChange(A, st) ==
    IF st = IDLE THEN setStartButtonEnabled(setClickButtonEnabled(A, FALSE), TRUE)
    ELSE IF st = PLAYING THEN setClickButtonEnabled(A, TRUE)
    ELSE IF st = FINISHED THEN setClickButtonEnabled(A, FALSE)
    ELSE A

\* Faulty variant: the submission sequence is run twice for one event.
handleGameEndTwice(A, gameData) ==
    submitScoreBegin(
        submitScoreBegin([A EXCEPT !.ui.modal = TRUE,
                                   !.ui.storageStatus = "processing"],
                         gameData.score),
        gameData.score)

handleGameEnd(A, gameData) ==
    submitScoreBegin([A EXCEPT !.ui.modal = TRUE, !.ui.storageStatus = "processing"],
                     gameData.score)

\* The callback the App registered on the channel of event e.
onEvent(A, e) ==
    IF e.ch = "state" THEN handleGameStateChange(A, e.val)
    ELSE IF e.ch = "end" THEN handleGameEnd(A, e.val)
    ELSE A

\* The App's callbacks run on the events of a log, in order.
RECURSIVE react(_, _)
react(A, log) ==
    IF log = <<>> THEN A
    ELSE CHOOSE r \in {react(A1, Tail(log)) : A1 \in {onEvent(A, Head(log))}} : TRUE

\* Faulty variant: the wallet connection is not tested.
handleStartGameNoCheck(A, g) ==
    LET R == After(<<Mark("app", "handleStartGame")>>, startCountdown(g))
    IN  [A |-> react(setStartButtonEnabled(A, FALSE), R.log), R |-> R]

\* ---- App handlers of the page's buttons: [A, R], R the engine's result ----
handleStartGame(A, g) ==
    IF ~isConnected(A.web3)
    THEN [A |-> showAlert(A, "error"),
          R |-> [g |-> g, log |-> <<Mark("app", "handleStartGame")>>]]
    ELSE LET R == After(<<Mark("app", "handleStartGame")>>, startCountdown(g))
         IN  [A |-> react(setStartButtonEnabled(A, FALSE), R.log), R |-> R]

appHandleClick(A, g) ==
    LET R == handleClick(g) IN [A |-> react(A, R.log), R |-> R]

handlePlayAgain(A, g) ==
    LET R == After(<<Mark("app", "handlePlayAgain")>>, reset(g))
    IN  [A |-> resetGameUI(react([A EXCEPT !.ui.modal = FALSE], R.log)), R |-> R]

\* ---- Web3Service.connect and App._handleConnectWallet ----
\* Faulty variant: the catch block does not reset the client.
connectCatchNoReset(w) == [w EXCEPT !.state = ERROR]

\* The catch block of connect().
connectCatch(w) == [web3Reset(w) EXCEPT !.state = ERROR]

\* _handleConnectWallet after connect() returned.
afterConnect(A, success, address) ==
    IF success
    THEN LET P == loadPlayerStats(
                      showAlert(updateWalletUI(A, TRUE, address), "success"))
         IN  IF P.pending THEN [P.A EXCEPT !.conns.stats = @ + 1] ELSE P.A
    ELSE showAlert(A, "error")

\* _handleConnectWallet up to the first await of connect().
handleConnectWallet(A) ==
    IF ~A.ethereum
    THEN showAlert(A, "error")
    ELSE [A EXCEPT !.web3.state = CONNECTING, !.conns.request = @ + 1]

\* connect() after eth_requestAccounts resolved (ok) or was rejected.
connectRequested(A, ok) ==
    IF ok
    THEN [A EXCEPT !.web3.provider = TRUE, !.web3.signer = TRUE,
                   !.conns.request = @ - 1, !.conns.address = @ + 1]
    ELSE afterConnect([A EXCEPT !.web3 = connectCatch(@), !.conns.request = @ - 1],
                      FALSE, NO_ADDRESS)

\* connect() after signer.getAddress() resolved or failed; with no provider
\* the network check fails at once.
connectAddressed(A, ok) ==
    IF ~ok
    THEN afterConnect([A EXCEPT !.web3 = connectCatch(@), !.conns.address = @ - 1],
                      FALSE, NO_ADDRESS)
    ELSE IF ~A.web3.provider
    THEN afterConnect([A EXCEPT !.web3 = web3Reset(@), !.conns.address = @ - 1],
                      FALSE, NO_ADDRESS)
    ELSE [A EXCEPT !.web3.walletAddress = WALLET,
                   !.conns.address = @ - 1, !.conns.network = @ + 1]

\* connect() after _ensureCorrectNetwork returned: "ok" on the right chain,
\* "switched" after a switch or add (provider and signer refreshed), "fail".
connectNetworked(A, outcome) ==
    IF outcome = "fail"
    THEN afterConnect([A EXCEPT !.web3 = web3Reset(@), !.conns.network = @ - 1],
                      FALSE, NO_ADDRESS)
    ELSE LET w0 == IF outcome = "switched"
                   THEN [A.web3 EXCEPT !.provider = TRUE, !.signer = TRUE]
                   ELSE A.web3
             w1 == [initializeContract(w0) EXCEPT !.state = CONNECTED]
         IN  afterConnect([A EXCEPT !.web3 = w1, !.conns.network = @ - 1],
                          TRUE, w1.walletAddress)

\* _handleConnectWallet after its stats read came back.
connectReloaded(A, ok) ==
    [loadPlayerStatsDone(A, ok) EXCEPT !.conns.stats = @ - 1]

(***************************************************************************)
(* Init: the engine as the App's bootstrap leaves it: constructed, with    *)
(* the App's five callbacks registered, nothing scheduled.                 *)
(***************************************************************************)
InitEngine ==
    /\ state = IDLE
    /\ clickCount = 0
    /\ timeLeft = FullDuration
    /\ timerInterval = NULL
    /\ countdownInterval = NULL
    /\ gameStartTime = NULL
    /\ handlers = Channels
    /\ intervals = {}
    /\ events = <<>>
    /\ ticks = <<>>
    /\ lastTimer = <<>>
    /\ fired = 0
    /\ clickCalls = 0
    /\ ended = 0

\* The engine on its own: the page as loaded, nothing stored, no wallet
\* connected, and no step of the orchestrator taken.
Init ==
    /\ InitEngine
    /\ ui = NewUI(FALSE)
    /\ web3 = NewWeb3
    /\ store = AbsentText
    /\ ledger = NewLedger
    /\ runs = <<>>
    /\ conns = NoCalls
    /\ direct = <<>>
    /\ ethereum = TRUE
    /\ started = 0
    /\ txs = <<>>

\* Commit the result R of one operation, and keep the per-round history.
Commit(R) ==
    LET entered == HasMark(R.log, "call", "startGameplay")
        cleared == HasMark(R.log, "call", "reset")
        tickVals == Vals(OnChannel(R.log, "countdown"))
        timerVals == Vals(OnChannel(R.log, "timer"))
    IN  /\ state' = R.g.state
        /\ clickCount' = R.g.clickCount
        /\ timeLeft' = R.g.timeLeft
        /\ timerInterval' = R.g.timerInterval
        /\ countdownInterval' = R.g.countdownInterval
        /\ gameStartTime' = R.g.gameStartTime
        /\ handlers' = R.g.handlers
        /\ intervals' = R.g.intervals
        /\ events' = R.log
        /\ ticks' = IF cleared THEN <<>>
                    ELSE IF state # COUNTDOWN /\ R.g.state = COUNTDOWN THEN tickVals
                    ELSE ticks \o tickVals
        /\ lastTimer' = IF cleared \/ "timer" \notin R.g.handlers THEN <<>>
                        ELSE IF timerVals # <<>> THEN <<timerVals[Len(timerVals)]>>
                        ELSE IF entered THEN <<>>
                        ELSE lastTimer
        /\ fired' = IF entered \/ cleared THEN 0
                    ELSE IF HasMark(R.log, "fire", "timer") /\ state = PLAYING
                    THEN fired + 1
                    ELSE fired
        /\ clickCalls' = IF entered \/ cleared THEN 0
                         ELSE IF HasMark(R.log, "call", "registerClick") /\ state = PLAYING
                         THEN clickCalls + 1
                         ELSE clickCalls
        /\ ended' = (IF entered \/ cleared THEN 0 ELSE ended)
                        + Len(OnChannel(R.log, "end"))

\* An operation on the engine with the orchestrator left out.
Step(R) == Commit(R) /\ UNCHANGED appVars

(***************************************************************************)
(* Actions: the engine's public methods, the two schedule callbacks and    *)
(* the App's click handler.                                                *)
(***************************************************************************)
StartCountdown ==
    /\ state = IDLE => Cardinality(intervals) < MaxSchedules
    /\ \E g \in {This} : \E R \in {startCountdown(g)} : Step(R)

CountdownFire ==
    \E iv \in intervals :
        /\ iv.kind = "countdown"
        /\ \E g \in {This} : \E R \in {countdownTick(g, iv)} : Step(R)

TimerFire ==
    \E iv \in intervals :
        /\ iv.kind = "timer"
        /\ \E g \in {This} : \E R \in {timerTick(g)} : Step(R)

RegisterClick ==
    /\ state = PLAYING => clickCount < MaxClicks
    /\ \E g \in {This} : \E R \in {registerClick(g)} : Step(R)

HandleClick ==
    /\ state = PLAYING => clickCount < MaxClicks
    /\ \E g \in {This} : \E R \in {handleClick(g)} : Step(R)

EndGame == \E g \in {This} : \E R \in {endGame(g)} : Step(R)

Reset == \E g \in {This} : \E R \in {reset(g)} : Step(R)

StartGameplay ==
    /\ Cardinality(intervals) < MaxSchedules
    /\ \E g \in {This} : \E R \in {startGameplay(g)} : Step(R)

Destroy == \E g \in {This} : \E R \in {destroy(g)} : Step(R)

SetHandlers == \E g \in {This} : \E R \in {setHandlers(g)} : Step(R)

(***************************************************************************)
(* Actions of the whole application: the page's buttons, the two schedule  *)
(* callbacks with the App's callbacks registered on the engine, and the    *)
(* wallet's and the ledger's answers to the calls in flight.               *)
(***************************************************************************)
AppCommit(A) ==
    /\ ui' = A.ui
    /\ web3' = A.web3
    /\ store' = A.store
    /\ ledger' = A.ledger
    /\ runs' = A.runs
    /\ conns' = A.conns
    /\ direct' = A.direct
    /\ ethereum' = A.ethereum
    /\ txs' = txs

\* Commit an engine result and the orchestrator's state after it.
Both(X) ==
    /\ Commit(X.R)
    /\ AppCommit(X.A)
    /\ started' = IF state = IDLE /\ X.R.g.state = COUNTDOWN
                  THEN started + 1 ELSE started

\* Commit a step that does not touch the engine.
AppOnly(A) ==
    /\ AppCommit(A)
    /\ UNCHANGED <<engineVars, events, ticks, lastTimer, fired, clickCalls, ended, started>>

\* connect() calls and connect-started stats reads in flight.
InFlight == conns.request + conns.address + conns.network + conns.stats

\* A click on the start button; a disabled button delivers no click.
ClickStart ==
    /\ ui.startEnabled
    /\ (isConnected(web3) /\ state = IDLE) => started < MaxRounds
    /\ \E X \in {handleStartGame(AppThis, This)} : Both(X)

\* A click on the click button; a disabled button delivers no click.
ClickButton ==
    /\ ui.clickEnabled
    /\ state = PLAYING => clickCount < MaxPageClicks
    /\ \E X \in {appHandleClick(AppThis, This)} : Both(X)

ClickPlayAgain == \E X \in {handlePlayAgain(AppThis, This)} : Both(X)

\* The connect button, or App.connectWallet().
ConnectWallet ==
    /\ ethereum => InFlight < MaxConnects
    /\ \E A \in {handleConnectWallet(AppThis)} : AppOnly(A)

\* App.connectWallet() called while earlier connects are still in flight.
ConnectOverlapping ==
    /\ ethereum => InFlight < MaxOverlap
    /\ \E A \in {handleConnectWallet(AppThis)} : AppOnly(A)

ConnectRequested ==
    /\ conns.request > 0
    /\ \E ok \in BOOLEAN : \E A \in {connectRequested(AppThis, ok)} : AppOnly(A)

ConnectAddressed ==
    /\ conns.address > 0
    /\ \E ok \in BOOLEAN : \E A \in {connectAddressed(AppThis, ok)} : AppOnly(A)

ConnectNetworked ==
    /\ conns.network > 0
    /\ \E outcome \in {"ok", "switched", "fail"} :
          \E A \in {connectNetworked(AppThis, outcome)} : AppOnly(A)

ConnectReloaded ==
    /\ conns.stats > 0
    /\ \E ok \in BOOLEAN : \E A \in {connectReloaded(AppThis, ok)} : AppOnly(A)

AppCountdownFire ==
    \E iv \in intervals :
        /\ iv.kind = "countdown"
        /\ \E R \in {countdownTick(This, iv)} :
              \E A \in {react(AppThis, R.log)} : Both([A |-> A, R |-> R])

AppTimerFire ==
    \E iv \in intervals :
        /\ iv.kind = "timer"
        /\ \E R \in {timerTick(This)} :
              \E A \in {react(AppThis, R.log)} : Both([A |-> A, R |-> R])

\* The ledger's answer to run i's submission: the transaction is mined and
\* acknowledged, or it fails and nothing is mined.
submitAnswered(A, i, mined) ==
    LET T == ledgerSubmitScore(A.ledger, WALLET, A.runs[i].score)
    IN  IF mined /\ ~T.reverted
        THEN submitScoreAcked([A EXCEPT !.ledger = T.L], i)
        ELSE submitScoreFailed(A, i)

SubmitAnswered ==
    \E i \in DOMAIN runs :
        /\ runs[i].pc = "submit"
        /\ \E mined \in BOOLEAN :
              \E A \in {submitAnswered(AppThis, i, mined)} : AppOnly(A)

StatsAnswered ==
    \E i \in DOMAIN runs :
        /\ runs[i].pc = "stats"
        /\ \E ok \in BOOLEAN :
              \E A \in {submitScoreReloaded(AppThis, i, ok)} : AppOnly(A)

\* _submitScore started with a drawn score; MaxRuns bounds the drawn calls
\* of a behaviour.
SubmitScoreRun ==
    /\ Len(runs) + Len(direct) < MaxRuns
    /\ \E score \in RunScores :
          \E A \in {submitScoreBegin(AppThis, score)} : AppOnly(A)

\* Web3Service.submitScore called with a drawn score; MaxCalls bounds the
\* drawn calls of a behaviour.
SubmitScoreCall ==
    /\ Len(direct) + Len(runs) < MaxCalls
    /\ \E score \in CallScores :
          \E A \in {submitScoreCall(AppThis, score)} : AppOnly(A)

CallAnswered ==
    \E k \in DOMAIN direct :
        /\ direct[k].pc = "submit"
        /\ \E mined \in BOOLEAN :
              \E A \in {submitScoreReturns(AppThis, k, mined)} : AppOnly(A)

\* A submitScore transaction sent to the contract by any account, mined in
\* a block stamped no earlier than the last one.
LedgerSubmitScore ==
    /\ Len(txs) < MaxTxs
    /\ \E sender \in Players : \E clicks \in LedgerScores : \E time \in BlockTimes :
          /\ txs # <<>> => time >= txs[Len(txs)].time
          /\ \E T \in {ledgerSubmitScoreAt(ledger, sender, clicks, time)} :
                /\ ledger' = T.L
                /\ txs' = Append(txs, [sender |-> sender, clicks |-> clicks,
                                       time |-> time, reverted |-> T.reverted])
    /\ UNCHANGED <<engineVars, events, ticks, lastTimer, fired, clickCalls, ended, ui, web3,
                   store, runs, conns, direct, ethereum, started>>

(***************************************************************************)
(* Specifications.                                                         *)
(***************************************************************************)
\* The engine as the App drives it: rounds started by startCountdown.
Next ==
    \/ StartCountdown
    \/ CountdownFire
    \/ TimerFire
    \/ RegisterClick
    \/ HandleClick
    \/ EndGame
    \/ Reset

Spec == Init /\ [][Next]_vars

\* The engine's methods called in any order, startGameplay and destroy
\* included.
NextPublic ==
    \/ Next
    \/ StartGameplay
    \/ Destroy

SpecPublic == Init /\ [][NextPublic]_vars

\* The App's lifecycle around the engine: destroy, then callbacks set again.
NextLifecycle ==
    \/ Next
    \/ Destroy
    \/ SetHandlers

SpecLifecycle == Init /\ [][NextLifecycle]_vars

\* One round left to run: no reset; the browser keeps firing live schedules.
NextRound ==
    \/ StartCountdown
    \/ CountdownFire
    \/ TimerFire
    \/ RegisterClick
    \/ HandleClick
    \/ EndGame

SpecRound ==
    /\ Init
    /\ [][NextRound]_vars
    /\ WF_vars(CountdownFire)
    /\ WF_vars(TimerFire)

\* The application in the browser: the user at the page, the schedules, the
\* wallet and the ledger.
InitApp ==
    /\ InitEngine
    /\ \E b \in BOOLEAN : ui = NewUI(b)
    /\ web3 = NewWeb3
    /\ store \in {AbsentText, NullText}
    /\ ledger = NewLedger
    /\ runs = <<>>
    /\ conns = NoCalls
    /\ direct = <<>>
    /\ ethereum \in BOOLEAN
    /\ started = 0
    /\ txs = <<>>

NextApp ==
    \/ ClickStart
    \/ ClickButton
    \/ ClickPlayAgain
    \/ ConnectWallet
    \/ ConnectRequested
    \/ ConnectAddressed
    \/ ConnectNetworked
    \/ ConnectReloaded
    \/ AppCountdownFire
    \/ AppTimerFire
    \/ SubmitAnswered
    \/ StatsAnswered

SpecApp == InitApp /\ [][NextApp]_vars

\* The submission sequence and the client's submitScore on their own: each
\* is called with scores drawn from the valid range and around it, in every
\* state the wallet client can be brought to.
NextCalls ==
    \/ ConnectWallet
    \/ ConnectRequested
    \/ ConnectAddressed
    \/ ConnectNetworked
    \/ ConnectReloaded
    \/ SubmitScoreRun
    \/ SubmitAnswered
    \/ StatsAnswered
    \/ SubmitScoreCall
    \/ CallAnswered

SpecCalls == InitApp /\ [][NextCalls]_vars

\* The wallet client with connect() calls that overlap, each resumed at its
\* awaits in any order.
NextConnect ==
    \/ ConnectOverlapping
    \/ ConnectRequested
    \/ ConnectAddressed
    \/ ConnectNetworked
    \/ ConnectReloaded

SpecConnect == InitApp /\ [][NextConnect]_vars

\* The ledger contract on its own: transactions from any account.
NextLedger == LedgerSubmitScore

SpecLedger == Init /\ [][NextLedger]_vars

\* The application with a wallet and a ledger that answer every call.
SpecAppAnswered ==
    /\ InitApp
    /\ [][NextApp]_vars
    /\ WF_vars(SubmitAnswered)
    /\ WF_vars(StatsAnswered)

(***************************************************************************)
(* Reading a state or a step.                                              *)
(***************************************************************************)
\* No event of any channel was delivered.
Silent(log) == \A i \in DOMAIN log : log[i].ch \notin Channels

\* No event of the channels chs was delivered.
Quiet(log, chs) == \A i \in DOMAIN log : log[i].ch \notin chs

\* The events delivered, without the marks.
Delivered(log) == SelectSeq(log, LAMBDA e : e.ch \in Channels)

\* A schedule callback ran.
Fires(log) == HasMark(log, "fire", "timer") \/ HasMark(log, "fire", "countdown")

\* The position of the first entry of a kind, 0 when there is none.
FirstOf(log, kind) ==
    IF \E i \in DOMAIN log : log[i].ch = kind
    THEN CHOOSE i \in DOMAIN log :
            log[i].ch = kind /\ \A j \in 1..(i - 1) : log[j].ch # kind
    ELSE 0

\* The countdown values COUNTDOWN_START, COUNTDOWN_START - 1, ... (n of them).
Descending(n) == [i \in 1..n |-> COUNTDOWN_START + 1 - i]

\* A _submitScore run is awaiting the ledger (its submission or the stats
\* read after it).
Awaiting(rs) == \E i \in DOMAIN rs : rs[i].pc # "done"

\* A _submitScore run is awaiting the answer to its submission.
Submitting(rs) == \E i \in DOMAIN rs : rs[i].pc = "submit"

\* Run i of rs has come to its end in the step to rs2.
Completes(rs, rs2, i) ==
    /\ i \in DOMAIN rs2
    /\ rs2[i].pc = "done"
    /\ (i \in DOMAIN rs => rs[i].pc # "done")

\* The runs of rs that have had an answer to a submission they sent.
Answered(rs) == {i \in DOMAIN rs : rs[i].calls > 0 /\ rs[i].pc # "submit"}

\* The client holds a contract instance and is not in demo mode.
ContractAvailable(w) == w.contract /\ ~w.isDemoMode

\* Run i takes the failure branch in the step.
SubmissionFails(i) ==
    /\ runs'[i].branch = "failure"
    /\ (i \in DOMAIN runs => runs[i].branch # "failure")

\* The play-again button and then the start button, pressed in the state the
\* step leads to.
PlayAgainThenStart ==
    LET P == handlePlayAgain(AppThis', This')
    IN  handleStartGame(P.A, P.R.g)

\* connect() calls awaiting the wallet.
Connecting(c) == c.request + c.address + c.network

\* The step is the return of a connect() call with success, with the rest
\* of _handleConnectWallet up to its await.
ConnectSucceeds ==
    /\ conns'.network = conns.network - 1
    /\ web3'.state = CONNECTED

\* The step is the return of a connect() call with a failure, with the rest
\* of _handleConnectWallet.
ConnectFails ==
    /\ Connecting(conns') = Connecting(conns) - 1
    /\ web3'.state # CONNECTED

\* Milliseconds since entry to Playing, by the decrement schedule's firings:
\* the last firing came no earlier than ElapsedLow after the entry, and with
\* the schedule on time the next one, due at ElapsedHigh, has not come yet.
ElapsedLow == fired * TIMER_INTERVAL
ElapsedHigh == (fired + 1) * TIMER_INTERVAL

\* The transactions of q that player sent and the contract accepted.
AcceptedTxs(q, player) ==
    SelectSeq(q, LAMBDA t : t.sender = player /\ ~t.reverted)

\* Their click counts, in order.
Accepted(q, player) ==
    [i \in DOMAIN AcceptedTxs(q, player) |-> AcceptedTxs(q, player)[i].clicks]

\* The step sends a transaction to the contract.
TxSent == Len(txs') = Len(txs) + 1

\* q continues p.
IsPrefix(p, q) == Len(p) <= Len(q) /\ SubSeq(q, 1, Len(p)) = p

\* The status the thresholds 3.0 and 6.0 give a time left.
StatusFor(t) ==
    IF FLeq(t, FFromInt(3)) THEN "danger"
    ELSE IF FLeq(t, FFromInt(6)) THEN "warning"
    ELSE "normal"

\* normal, warning, danger in the order a round passes through them.
StatusRank(status) ==
    CASE status = "normal" -> 0
      [] status = "warning" -> 1
      [] status = "danger" -> 2

\* A schedule of the kind is live.
Active(kind) == \E iv \in intervals : iv.kind = kind

\* The step starts a _submitScore run.
RunStarts == Len(runs') = Len(runs) + 1

\* The scores of the runs of rs that took the fallback branch, in order.
FallbackScores(rs) ==
    LET f == SelectSeq(rs, LAMBDA r : r.branch = "fallback")
    IN  [i \in DOMAIN f |-> f[i].score]

RECURSIVE Sum(_)
Sum(q) == IF q = <<>> THEN 0 ELSE Head(q) + Sum(Tail(q))

RECURSIVE Max(_)
Max(q) ==
    IF q = <<>> THEN 0
    ELSE LET m == Max(Tail(q)) IN IF Head(q) > m THEN Head(q) ELSE m

\* The playerStats record localStorage holds, zeros when it holds nothing.
Stored == loadDemoStats(store).stats

\* The decrement-schedule firings a round of DURATION seconds is to take.
ExpectedFirings == (DURATION * MS_PER_SECOND) \div TIMER_INTERVAL

(***************************************************************************)
(* Claims.                                                                 *)
(***************************************************************************)

\* C1: registerClick() called in a state other than Playing leaves
\* clickCount unchanged and delivers no click-count-updated event; the App's
\* click handler calls registerClick() only when the engine is Playing, and
\* otherwise changes nothing.
C1_ClickIgnoredUnlessPlaying ==
    [][ /\ (HasMark(events', "call", "registerClick") /\ state # PLAYING)
              => (clickCount' = clickCount /\ Quiet(events', {"click"}))
        /\ HasMark(events', "app", "handleClick")
              => IF state = PLAYING
                 THEN HasMark(events', "call", "registerClick")
                 ELSE /\ ~HasMark(events', "call", "registerClick")
                      /\ UNCHANGED engineVars
                      /\ Silent(events')
      ]_vars

\* C1 witness: a round with clicks is over and a further registerClick() call
\* has just been ignored.
C1_Witness ==
    /\ state = FINISHED
    /\ clickCount > 0
    /\ OpOf(events) = "registerClick"

\* C2: when registerClick() has been called N times during a Playing phase,
\* clickCount is N in Finished and the round-ended event carries score N.
C2_ScoreIsClickCalls ==
    /\ state = FINISHED => clickCount = clickCalls
    /\ \A i \in DOMAIN events :
          events[i].ch = "end" => events[i].val.score = clickCalls

\* C2 witness: a round ended with two clicks and its round-ended event out.
C2_Witness ==
    /\ state = FINISHED
    /\ clickCalls = 2
    /\ Len(OnChannel(events, "end")) = 1

\* C3: from Countdown the countdown schedule's firings lead to Playing, and
\* whenever Playing is entered clickCount is 0 and timeLeft is the full
\* duration.
C3_CountdownReachesPlaying ==
    /\ [][(state # PLAYING /\ state' = PLAYING)
              => (clickCount' = 0 /\ timeLeft' = FullDuration)]_vars
    /\ (state = COUNTDOWN) ~>
          (state = PLAYING /\ clickCount = 0 /\ timeLeft = FullDuration)

\* C3 witness: Playing has just been entered by the countdown's last firing.
C3_Witness ==
    /\ state = PLAYING
    /\ HasMark(events, "call", "startGameplay")
    /\ fired = 0
    /\ clickCount = 0
    /\ timeLeft = FullDuration

\* C4: the countdown-ticked events of one Countdown phase are 3, 2, 1 in that
\* order, the first delivered by startCountdown() itself; 0 is never
\* delivered; the firing that takes the count to 0 cancels the countdown
\* schedule before it starts gameplay.
C4_CountdownTicks ==
    /\ state = COUNTDOWN =>
          /\ Len(ticks) \in 1..COUNTDOWN_START
          /\ ticks = Descending(Len(ticks))
    /\ (state = COUNTDOWN /\ HasMark(events, "setInterval", countdownInterval))
          => ticks = <<COUNTDOWN_START>>
    /\ state = PLAYING => ticks = Descending(COUNTDOWN_START)
    /\ \A i \in DOMAIN events : events[i].ch = "countdown" => events[i].val >= 1
    /\ (state = PLAYING /\ HasMark(events, "fire", "countdown")) =>
          /\ countdownInterval = NULL
          /\ \A iv \in intervals : iv.kind # "countdown"
          /\ FirstOf(events, "clearInterval") > 0
          /\ FirstOf(events, "clearInterval") < FirstOf(events, "call")

\* C4 witness: the countdown has run out and delivered 3, 2, 1.
C4_Witness ==
    /\ state = PLAYING
    /\ HasMark(events, "fire", "countdown")
    /\ ticks = <<3, 2, 1>>

\* C5: with duration 10.0 s and interval 100 ms, the firing of the decrement
\* schedule that ends an uninterrupted round is the 100th.
C5_EndsOnHundredthFiring ==
    (state = FINISHED /\ HasMark(events, "fire", "timer"))
        => fired = ExpectedFirings

C8_EndGameIdempotent ==
    /\ [](ended <= 1 /\ (state = FINISHED => ended = 1))
    /\ [][ /\ (HasMark(events', "call", "endGame") /\ state # PLAYING)
                => (UNCHANGED engineVars /\ Silent(events'))
           /\ (HasMark(events', "call", "endGame") /\ state = PLAYING)
                => (state' = FINISHED /\ Len(OnChannel(events', "end")) = 1)
         ]_vars

\* C8 witness: endGame() has been called again after the round ended, and
\* the round still has its one round-ended event.
C8_Witness ==
    /\ state = FINISHED
    /\ OpOf(events) = "endGame"
    /\ Silent(events)
    /\ ended = 1

\* C9: at most one schedule is live, and every live schedule is the one an
\* engine handle holds (none is orphaned).
C9_OneScheduleAtATime ==
    /\ Cardinality(intervals) <= 1
    /\ \A iv \in intervals : iv.id \in {timerInterval, countdownInterval}

\* C10: startCountdown() called in Countdown, Playing or Finished changes no
\* engine variable, delivers no event and only warns; called in Idle it
\* enters Countdown; nothing else enters Countdown.
C10_StartCountdownOnlyFromIdle ==
    [][ /\ (HasMark(events', "call", "startCountdown") /\ state # IDLE) =>
              /\ UNCHANGED engineVars
              /\ Silent(events')
              /\ HasMark(events', "warn", "not idle")
        /\ (HasMark(events', "call", "startCountdown") /\ state = IDLE)
              => state' = COUNTDOWN
        /\ (state # COUNTDOWN /\ state' = COUNTDOWN)
              => (state = IDLE /\ HasMark(events', "call", "startCountdown"))
      ]_vars

\* C10 witness: startCountdown() has just been refused during a round.
C10_Witness ==
    /\ state = PLAYING
    /\ fired > 0
    /\ HasMark(events, "warn", "not idle")

C12_EventOrder ==
    [][ /\ (state # FINISHED /\ state' = FINISHED) =>
              LET d == Delivered(events')
              IN  /\ Len(d) >= 3
                  /\ d[1].ch = "state" /\ d[1].val = FINISHED
                  /\ d[2].ch = "timer" /\ FIsZero(d[2].val.timeLeft)
                  /\ d[3].ch = "end"
                  /\ \A i \in 2..Len(d) : d[i].ch # "state"
        /\ (state # PLAYING /\ state' = PLAYING) =>
              LET d == Delivered(events')
              IN  /\ Len(d) = 3
                  /\ d[1].ch = "state" /\ d[1].val = PLAYING
                  /\ d[2].ch = "click" /\ d[2].val = 0
                  /\ d[3].ch = "timer" /\ d[3].val.timeLeft = FullDuration
      ]_vars

\* C12 witness: the decrement schedule has just ended a round, and the step
\* delivered its events.
C12_Witness ==
    /\ state = FINISHED
    /\ HasMark(events, "fire", "timer")
    /\ Len(Delivered(events)) >= 3
    /\ Delivered(events)[3].ch = "end"

\* C13: no click is accepted (clickCount incremented) while a _submitScore
\* run started by an earlier round-ended event is still awaiting the ledger,
\* and the engine is never Playing while one is.
C13_NoClickWhileSubmitting ==
    [][ /\ clickCount' > clickCount => ~Awaiting(runs)
        /\ state' = PLAYING => ~Awaiting(runs')
      ]_vars

\* C14: every step that completes a _submitScore run, whatever its branch,
\* leaves the start button enabled; and when the ledger answers every call,
\* the delivery of a round-ended event leads to the completion of the run it
\* started, with the start button enabled.
C14_SubmissionReenablesStart ==
    /\ [][\A i \in DOMAIN runs' : Completes(runs, runs', i) => ui'.startEnabled]_vars
    /\ \A i \in 1..MaxRounds :
          (Len(runs) = i /\ OnChannel(events, "end") # <<>>) ~>
              (Len(runs) >= i /\ runs[i].pc = "done" /\ ui.startEnabled)

\* C14 witness: one run went through the ledger and its stats read, the
\* next one threw in the fallback save, and the start button is enabled.
C14_Witness ==
    /\ Len(runs) = 2
    /\ runs[1].branch = "success" /\ runs[1].reads = 1 /\ runs[1].pc = "done"
    /\ runs[2].branch = "exception"
    /\ ui.startEnabled

\* C15: a step from Playing to Finished delivers exactly one round-ended
\* event and starts exactly one _submitScore run, with the round's score; a
\* run is never started otherwise; a run calls contract.submitScore at most
\* once, and the ledger holds at most one entry per run that sent one.
C15_OneSubmissionPerRound ==
    /\ [](/\ \A i \in DOMAIN runs : runs[i].calls <= 1
          /\ Len(ledger.playerScores[WALLET]) <= Cardinality(Answered(runs)))
    /\ [][ /\ (state = PLAYING /\ state' = FINISHED) =>
                /\ Len(OnChannel(events', "end")) = 1
                /\ Len(runs') = Len(runs) + 1
                /\ runs'[Len(runs')].score = clickCount
           /\ Len(runs') # Len(runs) =>
                /\ state = PLAYING /\ state' = FINISHED
                /\ Len(runs') = Len(runs) + 1
           /\ \A i \in DOMAIN runs :
                /\ runs'[i].score = runs[i].score
                /\ runs'[i].calls = runs[i].calls
         ]_vars

\* C15 witness: two rounds were played, each was submitted once, and the
\* ledger holds the two entries.
C15_Witness ==
    /\ Len(runs) = 2
    /\ runs[1].calls = 1 /\ runs[2].calls = 1
    /\ Len(ledger.playerScores[WALLET]) = 2

\* C16: a run started with score 0 while a contract instance is available
\* ends at once: it makes no contract.submitScore call, leaves the ledger as
\* it was, and reports "no score to submit", not a failure; no run with
\* score 0 ever calls the ledger.
C16_ZeroScoreNotSubmitted ==
    /\ [](\A i \in DOMAIN runs : runs[i].score = 0 => runs[i].calls = 0)
    /\ [][ (RunStarts /\ runs'[Len(runs')].score = 0 /\ ContractAvailable(web3)) =>
              /\ runs'[Len(runs')].pc = "done"
              /\ runs'[Len(runs')].calls = 0
              /\ runs'[Len(runs')].branch = "zero"
              /\ runs'[Len(runs')].report = "none"
              /\ ui'.storageStatus = "none"
              /\ ui'.startEnabled
              /\ ledger' = ledger
         ]_vars

\* C16 witness: a round without clicks has ended with the contract at hand,
\* after an earlier round put an entry on the ledger.
C16_Witness ==
    /\ Len(runs) = 2
    /\ Len(ledger.playerScores[WALLET]) = 1
    /\ runs[2].score = 0
    /\ runs[2].branch = "zero"
    /\ ContractAvailable(web3)
    /\ OnChannel(events, "end") # <<>>

C19_FailureLeavesThingsAlone ==
    /\ [](\A i \in DOMAIN runs :
            /\ runs[i].calls <= 1
            /\ runs[i].branch = "failure" =>
                  /\ runs[i].pc = "done"
                  /\ runs[i].reads = 0
                  /\ runs[i].report = "failed")
    /\ [][ \A i \in DOMAIN runs' : SubmissionFails(i) =>
              /\ runs'[i].calls = (IF i \in DOMAIN runs THEN runs[i].calls ELSE 0)
              /\ ui'.storageStatus = "failed"
              /\ ui'.stats = ui.stats
              /\ ledger' = ledger
              /\ store' = store
              /\ (i \in DOMAIN runs => UNCHANGED <<engineVars, events, started>>)
              /\ ui'.startEnabled
              /\ isConnected(web3') =>
                    /\ PlayAgainThenStart.R.g.state = COUNTDOWN
                    /\ PlayAgainThenStart.R.g.clickCount = 0
         ]_vars

\* C19 witness: the first round's submission was sent once and failed,
\* nothing is on the ledger, and a second round is being played.
C19_Witness ==
    /\ Len(runs) = 1
    /\ runs[1].branch = "failure"
    /\ runs[1].calls = 1
    /\ ui.storageStatus = "failed"
    /\ ledger = NewLedger
    /\ started = 2
    /\ state = PLAYING

\* C20: in the step in which a run's submission is acknowledged, the run
\* issues one getPlayerStats read on the ledger and waits for it: the stats
\* shown are not touched and the start button is not enabled by that step;
\* the stats shown after the read are the ledger's.
C20_ReloadAfterAck ==
    [][ \A i \in DOMAIN runs :
          (runs[i].pc = "submit" /\ runs'[i].branch = "success") =>
              /\ runs'[i].pc = "stats"
              /\ runs'[i].reads = 1
              /\ ui'.stats = ui.stats
              /\ ui'.startEnabled = ui.startEnabled
      ]_vars

\* C21: in every state in which the wallet client reports not connected, the
\* start handler leaves the engine (state, clickCount, timeLeft, interval
\* handles, live schedules) and the page (the start button's enabled flag
\* included) as they are and does not call startCountdown().
C21_StartRejectedUnlessConnected ==
    ~isConnected(web3) =>
        /\ handleStartGame(AppThis, This).A = AppThis
        /\ handleStartGame(AppThis, This).R.g = This
        /\ handleStartGame(AppThis, This).R.log = <<Mark("app", "handleStartGame")>>

\* C21 witness: after a round was played and its score sent, a failed
\* connect has reset the wallet client, and a click on the enabled start
\* button has just been rejected.
C21_Witness ==
    /\ ~isConnected(web3)
    /\ events = <<Mark("app", "handleStartGame")>>
    /\ ui.startEnabled
    /\ Len(runs) = 1
    /\ state = IDLE

\* C22: when connect() returns success, _loadPlayerStats is run once: one
\* getPlayerStats read is issued to the ledger for the connected address
\* (zeros are shown at once when the client holds no address), and the read
\* is not issued again while it is awaited.  When connect() fails, at any of
\* its awaits, the engine and the stats shown are left as they were, no read
\* is issued, and the client reports not connected and holds no contract
\* instance.  With no wallet in the browser the connect handler changes
\* nothing at all.
C22_ConnectOutcome ==
    /\ [][ ConnectSucceeds =>
              /\ web3'.contract
              /\ web3'.walletAddress # NO_ADDRESS =>
                    /\ isConnected(web3')
                    /\ conns'.stats = conns.stats + 1
                    /\ ui'.stats = ui.stats
              /\ web3'.walletAddress = NO_ADDRESS =>
                    /\ conns'.stats = conns.stats
                    /\ ui'.stats = Shown(ZeroStats, FALSE)
              /\ UNCHANGED <<engineVars, events, ledger, runs>>
         ]_vars
    /\ [][ ConnectFails =>
              /\ UNCHANGED <<engineVars, events, ledger, runs, ui, store>>
              /\ conns'.stats = conns.stats
              /\ ~isConnected(web3')
              /\ ~web3'.contract
         ]_vars
    /\ [](~ethereum =>
              /\ handleConnectWallet(AppThis) = AppThis
              /\ ~isConnected(web3) /\ ~web3.contract /\ conns = NoCalls)

\* C22 witness: a connect succeeded and its stats read came back; a round
\* was started; a second connect was then rejected by the wallet during the
\* countdown.
C22_Witness ==
    /\ web3.state = ERROR
    /\ ~web3.contract
    /\ conns = NoCalls
    /\ state = COUNTDOWN
    /\ started = 1
    /\ ui.startEnabled = FALSE

\* C23: the play-again handler run while the engine is not Finished leaves
\* the engine's state and its live schedules as they are (a countdown or a
\* round goes on); it brings the engine to Idle only from Finished.
C23_PlayAgainOnlyAfterRound ==
    [][ (OpOf(events') = "handlePlayAgain" /\ state # FINISHED) =>
            /\ state' = state
            /\ intervals' = intervals
      ]_vars

\* C24: the duration a round-ended event carries, in milliseconds, is the
\* time elapsed since the entry to Playing: it lies between the time of the
\* last firing of the decrement schedule and the time the next one is due.
C24_DurationIsElapsed ==
    \A i \in DOMAIN OnChannel(events, "end") :
        LET d == OnChannel(events, "end")[i].val.duration * MS_PER_SECOND
        IN  ElapsedLow <= d /\ d <= ElapsedHigh

\* C25: a submitScore transaction reverts exactly when its click count is
\* not in 1..1000, and a reverted one leaves the contract's storage as it
\* was; an accepted one appends one (score, timestamp) entry to the sender's
\* list, raises the sender's best score to the count if that is larger,
\* adds the count to the sender's total, and leaves every other account's
\* list, best score and total untouched.
C25_SubmitScoreFrame ==
    [][ TxSent =>
          LET t == txs'[Len(txs')]
          IN  /\ t.reverted <=> ~(0 < t.clicks /\ t.clicks <= 1000)
              /\ t.reverted => ledger' = ledger
              /\ ~t.reverted =>
                    /\ ledger'.playerScores[t.sender] =
                          Append(ledger.playerScores[t.sender],
                                 [score |-> t.clicks, timestamp |-> t.time])
                    /\ ledger'.playerBestScore[t.sender] =
                          Max(<<ledger.playerBestScore[t.sender], t.clicks>>)
                    /\ ledger'.playerTotalClicks[t.sender] =
                          ledger.playerTotalClicks[t.sender] + t.clicks
                    /\ \A p \in Players \ {t.sender} :
                          /\ ledger'.playerScores[p] = ledger.playerScores[p]
                          /\ ledger'.playerBestScore[p] = ledger.playerBestScore[p]
                          /\ ledger'.playerTotalClicks[p] = ledger.playerTotalClicks[p]
      ]_vars

\* C25 witness: one account had 1000 accepted, a transaction with 1001 and
\* one with 0 were reverted after it.
C25_Witness ==
    /\ Len(txs) = 3
    /\ txs[1].clicks = 1000 /\ ~txs[1].reverted
    /\ txs[2].clicks = 1001 /\ txs[2].reverted
    /\ txs[3].clicks = 0 /\ txs[3].reverted /\ txs[3].sender # txs[1].sender
    /\ ledgerGetScoreCount(ledger, txs[1].sender) = 1

\* C26: for every account getPlayerStats returns the number, the maximum (0
\* when there is none) and the sum of the click counts of the account's
\* accepted transactions; the three figures never decrease, and an
\* account's recorded entries stay as they are, new ones coming after them.
C26_StatsAreCountMaxSum ==
    /\ [](\A p \in Players :
            /\ ledgerGetPlayerStats(ledger, p).totalScores = Len(Accepted(txs, p))
            /\ ledgerGetPlayerStats(ledger, p).bestScore = Max(Accepted(txs, p))
            /\ ledgerGetPlayerStats(ledger, p).totalClicks = Sum(Accepted(txs, p)))
    /\ [][ \A p \in Players :
            /\ ledgerGetPlayerStats(ledger', p).totalScores
                    >= ledgerGetPlayerStats(ledger, p).totalScores
            /\ ledgerGetPlayerStats(ledger', p).bestScore
                    >= ledgerGetPlayerStats(ledger, p).bestScore
            /\ ledgerGetPlayerStats(ledger', p).totalClicks
                    >= ledgerGetPlayerStats(ledger, p).totalClicks
            /\ IsPrefix(ledger.playerScores[p], ledger'.playerScores[p])
      ]_vars

\* C26 witness: one account had 500 and then 1 accepted, so its best score
\* is not its last; the other account had 1000 accepted in between.
C26_Witness ==
    /\ Accepted(txs, "0xA") = <<500, 1>>
    /\ Accepted(txs, "0xB") = <<1000>>
    /\ txs[2].sender = "0xB"
    /\ ledgerGetPlayerStats(ledger, "0xA") =
          [totalScores |-> 2, bestScore |-> 500, totalClicks |-> 501]

\* C27: for every account and every index, getScoreAtIndex reverts when the
\* index is not below getScoreCount and otherwise returns the click count
\* and the block time of the account's accepted transaction of that rank,
\* counted from 0; getScoreCount is the number of the account's accepted
\* transactions, the length of getPlayerScores and the totalScores of
\* getPlayerStats, and getPlayerScores lists the accepted counts in order.
C27_ScoreAtIndex ==
    \A p \in Players :
        /\ ledgerGetScoreCount(ledger, p) = Len(AcceptedTxs(txs, p))
        /\ ledgerGetScoreCount(ledger, p) = Len(ledgerGetPlayerScores(ledger, p))
        /\ ledgerGetScoreCount(ledger, p) = ledgerGetPlayerStats(ledger, p).totalScores
        /\ ledgerGetPlayerScores(ledger, p) = Accepted(txs, p)
        /\ \A index \in 0..(MaxTxs + 1) :
              LET r == ledgerGetScoreAtIndex(ledger, p, index)
              IN  IF index >= ledgerGetScoreCount(ledger, p)
                  THEN r.reverted
                  ELSE /\ ~r.reverted
                       /\ r.score = AcceptedTxs(txs, p)[index + 1].clicks
                       /\ r.timestamp = AcceptedTxs(txs, p)[index + 1].time

\* C27 witness: an account has two entries with different counts and block
\* times, a reverted transaction of its own between them.
C27_Witness ==
    /\ Len(txs) = 3
    /\ txs[1].sender = txs[3].sender /\ txs[2].sender = txs[1].sender
    /\ ~txs[1].reverted /\ txs[2].reverted /\ ~txs[3].reverted
    /\ txs[1].clicks # txs[3].clicks
    /\ txs[1].time # txs[3].time
    /\ ledgerGetScoreAtIndex(ledger, txs[1].sender, 1).score = txs[3].clicks
    /\ ledgerGetScoreAtIndex(ledger, txs[1].sender, 2).reverted

\* C28: a firing of the decrement schedule during Playing delivers exactly
\* one timer-updated event, the firing that ends the round included, and no
\* timer-updated event comes after the round-ended event.
C28_OneTimerUpdatePerFiring ==
    [][ (HasMark(events', "fire", "timer") /\ state = PLAYING) =>
          /\ Len(OnChannel(events', "timer")) = 1
          /\ \A i, j \in DOMAIN events' :
                (events'[i].ch = "end" /\ events'[j].ch = "timer") => j < i
      ]_vars

\* C29: every timer-updated event carries danger when its timeLeft is at
\* most 3.0, warning when it is above 3.0 and at most 6.0, and normal above
\* 6.0; within a Playing phase each timer-updated event's status is the
\* status of the one before it or a later one in the order normal, warning,
\* danger.
C29_StatusFollowsTimeLeft ==
    /\ [](\A i \in DOMAIN OnChannel(events, "timer") :
            OnChannel(events, "timer")[i].val.status =
                StatusFor(OnChannel(events, "timer")[i].val.timeLeft))
    /\ [][ LET phase == (IF HasMark(events', "call", "startGameplay")
                         THEN <<>> ELSE lastTimer)
                         \o Vals(OnChannel(events', "timer"))
           IN  \A i \in DOMAIN phase \ {1} :
                   StatusRank(phase[i].status) >= StatusRank(phase[i - 1].status)
      ]_vars

\* C29 witness: the 71st firing of a round has just delivered the first
\* danger status, after normal and warning ones.
C29_Witness ==
    /\ state = PLAYING
    /\ fired = 71
    /\ HasMark(events, "fire", "timer")
    /\ lastTimer # <<>>
    /\ lastTimer[1].status = "danger"
    /\ lastTimer[1].timeLeft = timeLeft

\* C30: a countdown schedule is live exactly in Countdown, a decrement
\* schedule exactly in Playing, and none in Idle or Finished.
C30_SchedulesMatchState ==
    /\ Active("countdown") <=> state = COUNTDOWN
    /\ Active("timer") <=> state = PLAYING
    /\ state \in {IDLE, FINISHED} => intervals = {}

\* C30 witness: a round was ended by endGame() after some firings, so the
\* engine is Finished with no schedule left.
C30_Witness ==
    /\ state = FINISHED
    /\ intervals = {}
    /\ OpOf(events) = "endGame"
    /\ ended = 1
    /\ fired > 0

\* C31: the start button is never enabled while the engine is in Countdown
\* or Playing, whatever the order of clicks, schedule firings and answers to
\* pending ledger calls.
C31_StartDisabledDuringRound ==
    state \in {COUNTDOWN, PLAYING} => ~ui.startEnabled

\* C32: in every state with the start button enabled and the wallet
\* connected, a click on the start button puts the engine into Countdown.
C32_StartBeginsRound ==
    (ui.startEnabled /\ isConnected(web3)) =>
        handleStartGame(AppThis, This).R.g.state = COUNTDOWN

\* C33: with the schedules firing and no reset() or destroy(), a round that
\* has entered Countdown reaches Finished with its round-ended event
\* delivered; the event is delivered once per round and only on entry to
\* Finished.
C33_RoundTerminates ==
    /\ (state = COUNTDOWN) ~> (state = FINISHED /\ ended = 1)
    /\ [](ended = (IF state = FINISHED THEN 1 ELSE 0))
    /\ [][ended' # ended => (state = PLAYING /\ state' = FINISHED)]_vars

\* C33 witness: the round ran out on a firing of the decrement schedule,
\* with the clicks made on the way counted.
C33_Witness ==
    /\ state = FINISHED
    /\ ended = 1
    /\ HasMark(events, "fire", "timer")
    /\ Len(OnChannel(events, "end")) = 1
    /\ clickCount = MaxClicks
    /\ intervals = {}

\* C34: with connect() calls overlapping, a call that returns success
\* leaves the client reporting connected, with a wallet address and a
\* contract instance, and the client is never in state CONNECTED without a
\* wallet address.
C34_ConnectedHasAddress ==
    /\ [](web3.state = CONNECTED => web3.walletAddress # NO_ADDRESS)
    /\ [][ConnectSucceeds =>
            /\ isConnected(web3')
            /\ web3'.walletAddress # NO_ADDRESS
            /\ web3'.contract]_vars

====
